---- MODULE Spec2Model ----
(***************************************************************************)
(* TimeTracer: the per-day session record (UrlDataObj), the heartbeat      *)
(* reconciler (checkInterval) and the background handlers that drive them. *)
(*                                                                         *)
(* Time is counted in ticks of one minute (60000 ms).  A Date is the       *)
(* one-element tuple <<t>> of its epoch value, JavaScript null is the      *)
(* empty tuple for dates and the string NullUrl for urls.                  *)
(*                                                                         *)
(* urlData is the UrlDataObj last operated on, store the JSON document     *)
(* kept under today's date key; pre and op record the object before the    *)
(* last call and the call itself, so that the effect of one call can be    *)
(* stated as a predicate on a single state.                                *)
(*                                                                         *)
(* tasks holds the handler invocations of the asynchronous view, js the    *)
(* last two steps the JavaScript thread made and fired the number of       *)
(* events delivered.  keyList is the list of keys chrome.storage.local     *)
(* holds and todayDate the local calendar day new Date() falls on;         *)
(* localStore is chrome.storage.local with a document per date key, where  *)
(* the days are told apart; acct is the book kept next to a record driven  *)
(* with                                                                    *)
(* non-decreasing timestamps: the time of the last call, the wall-clock    *)
(* time each url has been active and the running session's start.          *)
(***************************************************************************)
EXTENDS Integers, Sequences, FiniteSets, TLC

VARIABLES urlData, pre, op, store, tasks, js, fired, keyList, todayDate, localStore, acct

vars == <<urlData, pre, op, store, tasks, js, fired, keyList, todayDate, localStore, acct>>
\* the state of the handlers in flight (see the asynchronous handlers below)
asyncVars == <<tasks, js, fired>>
\* the keys of chrome.storage.local, the calendar day, the documents stored
\* per date key and the books kept on one record's sessions (see the
\* retention clean-up, the tracking across days and the accounting of
\* sessions below)
auxVars == <<keyList, todayDate, localStore, acct>>

(***************************************************************************)
(* Bounds of the model                                                     *)
(***************************************************************************)
\* epoch value of the earliest wall-clock reading; wall-clock readings are
\* far larger than any interval length, as Date.now() is against 120000
Epoch == 10
\* wall-clock readings range over Epoch .. Epoch + MaxTick
MaxTick == 3
\* totals are explored up to MaxTotal
MaxTotal == 3
\* events delivered to the asynchronous handlers
MaxEvents == 2

\* background.js: TIME_CHECK_INTERVAL_MILLISEC = 2 * 60000, in ticks
TIME_CHECK_INTERVAL_MILLISEC == 2

NullUrl == "<null>"
NullDate == << >>
\* the value of a property that was never assigned (a field missing from the
\* parsed JSON)
UndefinedUrl == "<undefined>"
\* `x == null`: true of null and of undefined
isNullish(x) == x \in {NullUrl, UndefinedUrl}

Date(t) == <<t>>
Clock == {Date(Epoch + k) : k \in 0..MaxTick}
\* interval lengths handed to endSession / checkInterval by direct callers:
\* every length up to the one the background script uses
Intervals == 1..TIME_CHECK_INTERVAL_MILLISEC

\* ToNumber of a Date or of null, as the operands of `-` are coerced:
\* null -> 0, Date -> its epoch value
valueOf(d) == IF d = NullDate THEN 0 ELSE d[1]

Min(a, b) == IF a <= b THEN a ELSE b

(***************************************************************************)
(* Tab urls as the browser reports them, and cleanUrl                      *)
(***************************************************************************)
RawUrls ==
  { [kind |-> "empty",   protocol |-> "",         host |-> "",      rest |-> ""],
    [kind |-> "invalid", protocol |-> "",         host |-> "",      rest |-> "not a url"],
    [kind |-> "url",     protocol |-> "https://", host |-> "a.com", rest |-> "/path?q=1#h"],
    [kind |-> "url",     protocol |-> "http://",  host |-> "b.com", rest |-> "/"] }

cleanUrl(url) ==
  IF url.kind = "empty" THEN NullUrl
  ELSE IF url.kind = "invalid" THEN NullUrl
  ELSE LET baseUrl == url.protocol \o url.host
       IN  IF url.protocol = "https://" THEN url.host ELSE baseUrl

\* every value cleanUrl can return, null included
CleanedUrls == {cleanUrl(u) : u \in RawUrls}

(***************************************************************************)
(* UrlDataObj                                                              *)
(***************************************************************************)
NewUrlDataObj ==
  [activeUrl |-> NullUrl, lastActiveUrl |-> NullUrl, startTime |-> NullDate,
   lastDateCheck |-> NullDate, urlList |-> << >>]

\* index of the first entry of urlList whose url is u, 0 when there is none
\* (Array.prototype.find returns the first match)
findIndex(urlList, u) ==
  IF \E i \in 1..Len(urlList) : urlList[i].url = u
  THEN CHOOSE i \in 1..Len(urlList) :
         /\ urlList[i].url = u
         /\ \A j \in 1..(i - 1) : urlList[j].url # u
  ELSE 0

\* the entry of url u in a list: whether there is one, and its total (0 if none)
hasEntry(urlList, u) == \E i \in 1..Len(urlList) : urlList[i].url = u
totalOf(urlList, u) ==
  IF hasEntry(urlList, u) THEN urlList[findIndex(urlList, u)].totalTime ELSE 0

\* addActiveTime without the test for an active url
addActiveTime_NoNullGuard(self, elapsedTime) ==
  LET i == findIndex(self.urlList, self.activeUrl)
  IN  IF i # 0
      THEN [self EXCEPT !.urlList[i].totalTime = @ + elapsedTime]
      ELSE [self EXCEPT !.urlList =
              Append(@, [url |-> self.activeUrl, totalTime |-> elapsedTime])]

\* addActiveTime that credits the first entry of the list when the active
\* url has one somewhere
addActiveTime_FirstEntry(self, elapsedTime) ==
  IF isNullish(self.activeUrl) THEN self
  ELSE IF findIndex(self.urlList, self.activeUrl) # 0
  THEN [self EXCEPT !.urlList[1].totalTime = @ + elapsedTime]
  ELSE [self EXCEPT !.urlList =
          Append(@, [url |-> self.activeUrl, totalTime |-> elapsedTime])]

\* addActiveTime that pushes an entry without looking for one
addActiveTime_AlwaysPush(self, elapsedTime) ==
  IF isNullish(self.activeUrl) THEN self
  ELSE [self EXCEPT !.urlList =
          Append(@, [url |-> self.activeUrl, totalTime |-> elapsedTime])]

addActiveTime(self, elapsedTime) ==
  IF isNullish(self.activeUrl) THEN self
  ELSE LET i == findIndex(self.urlList, self.activeUrl)
       IN  IF i # 0
           THEN [self EXCEPT !.urlList[i].totalTime = @ + elapsedTime]
           ELSE [self EXCEPT !.urlList =
                   Append(@, [url |-> self.activeUrl, totalTime |-> elapsedTime])]

\* `!== null`: true of undefined
hasActiveUrl(self) == self.activeUrl # NullUrl

setLastDateCheck(self, date) == [self EXCEPT !.lastDateCheck = date]

\* appendListItem without the `some` test
appendListItem_NoCheck(self, url) ==
  [self |-> [self EXCEPT !.urlList = Append(@, [url |-> url, totalTime |-> 0])],
   result |-> TRUE]

\* the object after the call and the boolean returned
appendListItem(self, url) ==
  IF ~(\E i \in 1..Len(self.urlList) : self.urlList[i].url = url)
  THEN [self |-> [self EXCEPT !.urlList = Append(@, [url |-> url, totalTime |-> 0])],
        result |-> TRUE]
  ELSE [self |-> self, result |-> FALSE]

\* startSession that closes the running session's bookkeeping first
startSession_RecordsLast(self, url, currentTime) ==
  [self EXCEPT !.lastActiveUrl = IF self.activeUrl # NullUrl THEN self.activeUrl ELSE @,
               !.activeUrl = url,
               !.startTime = currentTime]

startSession(self, url, currentTime) ==
  [self EXCEPT !.activeUrl = url, !.startTime = currentTime]

\* calcTimeElapsed without the clamps of negative differences
calcTimeElapsed_NoClamp(self, currentTime) ==
  LET startElapsed == currentTime - valueOf(self.startTime)
      lastCheckElapsed == currentTime - valueOf(self.lastDateCheck)
  IN  Min(startElapsed, lastCheckElapsed)

\* calcTimeElapsed that measures from startTime alone
calcTimeElapsed_SinceStartOnly(self, currentTime) ==
  LET startElapsed == currentTime - valueOf(self.startTime)
  IN  IF startElapsed < 0 THEN 0 ELSE startElapsed

\* calcTimeElapsed that clamps startElapsed only
calcTimeElapsed_ClampStartOnly(self, currentTime) ==
  LET startElapsed == currentTime - valueOf(self.startTime)
      lastCheckElapsed == currentTime - valueOf(self.lastDateCheck)
      s == IF startElapsed < 0 THEN 0 ELSE startElapsed
  IN  Min(s, lastCheckElapsed)

\* currentTime is the number the parameter coerces to in `currentTime - x`
calcTimeElapsed(self, currentTime) ==
  LET startElapsed == currentTime - valueOf(self.startTime)
      lastCheckElapsed == currentTime - valueOf(self.lastDateCheck)
      s == IF startElapsed < 0 THEN 0 ELSE startElapsed
      l == IF lastCheckElapsed < 0 THEN 0 ELSE lastCheckElapsed
  IN  Min(s, l)

\* the first comparison strict: elapsed == interval falls into the final else
isTimeElapsedWithinInterval_Strict(timeElapsed, timeInterval) ==
  IF timeElapsed < timeInterval THEN TRUE
  ELSE IF timeElapsed > timeInterval * 2 THEN FALSE
  ELSE IF timeElapsed > timeInterval THEN TRUE
  ELSE FALSE

\* the 2 * interval cutoff left out
isTimeElapsedWithinInterval_NoCutoff(timeElapsed, timeInterval) ==
  IF timeElapsed <= timeInterval THEN TRUE
  ELSE IF timeElapsed > timeInterval THEN TRUE
  ELSE FALSE

isTimeElapsedWithinInterval(timeElapsed, timeInterval) ==
  IF timeElapsed <= timeInterval THEN TRUE
  ELSE IF timeElapsed > timeInterval * 2 THEN FALSE
  ELSE IF timeElapsed > timeInterval THEN TRUE
  ELSE FALSE

\* endSession that does not record the url it closes
endSession_NoLastActiveUrl(self, timeInterval, currentTime) ==
  IF isNullish(self.activeUrl) THEN self
  ELSE LET timeElapsed == calcTimeElapsed(self, timeInterval)
           s1 == IF isTimeElapsedWithinInterval(timeElapsed, timeInterval)
                 THEN addActiveTime(self, timeElapsed)
                 ELSE self
       IN  [s1 EXCEPT !.activeUrl = NullUrl, !.startTime = NullDate]

\* endSession without the early return on a null activeUrl
endSession_NoNullGuard(self, timeInterval, currentTime) ==
  LET timeElapsed == calcTimeElapsed(self, timeInterval)
      s1 == IF isTimeElapsedWithinInterval(timeElapsed, timeInterval)
            THEN addActiveTime(self, timeElapsed)
            ELSE self
  IN  [s1 EXCEPT !.lastActiveUrl = s1.activeUrl,
                 !.activeUrl = NullUrl,
                 !.startTime = NullDate]

\* endSession that adds the time and leaves the session running
endSession_KeepsActive(self, timeInterval, currentTime) ==
  IF isNullish(self.activeUrl) THEN self
  ELSE LET timeElapsed == calcTimeElapsed(self, timeInterval)
       IN  IF isTimeElapsedWithinInterval(timeElapsed, timeInterval)
           THEN addActiveTime(self, timeElapsed)
           ELSE self

\* endSession calls this.calcTimeElapsed(timeInterval, currentTime):
\* calcTimeElapsed has one parameter, so timeInterval is bound to it and the
\* second argument is dropped
endSession(self, timeInterval, currentTime) ==
  IF isNullish(self.activeUrl) THEN self
  ELSE LET timeElapsed == calcTimeElapsed(self, timeInterval)
           s1 == IF isTimeElapsedWithinInterval(timeElapsed, timeInterval)
                 THEN addActiveTime(self, timeElapsed)
                 ELSE self
       IN  [s1 EXCEPT !.lastActiveUrl = s1.activeUrl,
                      !.activeUrl = NullUrl,
                      !.startTime = NullDate]

\* checkInterval that stamps lastDateCheck only on the ticks that add time
checkInterval_StampWhenAdded(data, timeInterval, currentTime) ==
  IF ~hasActiveUrl(data) THEN data
  ELSE LET timeElapsed == calcTimeElapsed(data, valueOf(currentTime))
       IN  IF isTimeElapsedWithinInterval(timeElapsed, timeInterval)
           THEN setLastDateCheck(addActiveTime(data, timeElapsed), currentTime)
           ELSE data

\* checkInterval without the hasActiveUrl guard, pushing the time itself
checkInterval_NoGuard(data, timeInterval, currentTime) ==
  LET timeElapsed == calcTimeElapsed(data, valueOf(currentTime))
      i == findIndex(data.urlList, data.activeUrl)
      s1 == IF ~isTimeElapsedWithinInterval(timeElapsed, timeInterval) THEN data
            ELSE IF i # 0
            THEN [data EXCEPT !.urlList[i].totalTime = @ + timeElapsed]
            ELSE [data EXCEPT !.urlList =
                    Append(@, [url |-> data.activeUrl, totalTime |-> timeElapsed])]
  IN  setLastDateCheck(s1, currentTime)

checkInterval(data, timeInterval, currentTime) ==
  IF ~hasActiveUrl(data) THEN data
  ELSE LET timeElapsed == calcTimeElapsed(data, valueOf(currentTime))
           s1 == IF isTimeElapsedWithinInterval(timeElapsed, timeInterval)
                 THEN addActiveTime(data, timeElapsed)
                 ELSE data
       IN  setLastDateCheck(s1, currentTime)

(***************************************************************************)
(* Serialization and the store                                             *)
(***************************************************************************)
\* What chrome.storage.local holds under the date key, and so what
\* fromJSONString is handed, by kind:
\*   "undefined"    nothing stored
\*   "emptyString"  the string ''
\*   "notJson"      a string that is not JSON text
\*   "jsonNull"     the string 'null'
\*   "jsonNumber"   the string '7'
\*   "jsonArray"    the string '[]'
\*   "jsonBadList"  the string '{"urlList":5}'
\*   "number"       the number 7, not a string
\*   "json"         the text of a JSON object, with the fields it has
NoData == [kind |-> "undefined"]

\* what fromJSONString returns from its catch block
Null == [kind |-> "null"]

toISOString(d) == <<"ISO", d[1]>>
parseDate(iso) == Date(iso[2])

\* toJSONString that leaves the last heartbeat out of the document
toJSONString_DropsLastDateCheck(self) ==
  [kind |-> "json",
   activeUrl |-> self.activeUrl,
   lastActiveUrl |-> self.lastActiveUrl,
   startTime |-> IF self.startTime # NullDate THEN toISOString(self.startTime) ELSE << >>,
   lastDateCheck |-> << >>,
   urlList |-> [i \in 1..Len(self.urlList) |->
                  [url |-> self.urlList[i].url, totalTime |-> self.urlList[i].totalTime]]]

\* JSON.stringify leaves out a property whose value is undefined
toJSONString(self) ==
  LET startTime == IF self.startTime # NullDate THEN toISOString(self.startTime) ELSE << >>
      lastDateCheck == IF self.lastDateCheck # NullDate
                       THEN toISOString(self.lastDateCheck) ELSE << >>
      urlList == [i \in 1..Len(self.urlList) |->
                    [url |-> self.urlList[i].url, totalTime |-> self.urlList[i].totalTime]]
  IN  IF self.activeUrl = UndefinedUrl /\ self.lastActiveUrl = UndefinedUrl
      THEN [kind |-> "json", startTime |-> startTime, lastDateCheck |-> lastDateCheck,
            urlList |-> urlList]
      ELSE IF self.activeUrl = UndefinedUrl
      THEN [kind |-> "json", lastActiveUrl |-> self.lastActiveUrl,
            startTime |-> startTime, lastDateCheck |-> lastDateCheck, urlList |-> urlList]
      ELSE IF self.lastActiveUrl = UndefinedUrl
      THEN [kind |-> "json", activeUrl |-> self.activeUrl,
            startTime |-> startTime, lastDateCheck |-> lastDateCheck, urlList |-> urlList]
      ELSE [kind |-> "json", activeUrl |-> self.activeUrl,
            lastActiveUrl |-> self.lastActiveUrl,
            startTime |-> startTime, lastDateCheck |-> lastDateCheck, urlList |-> urlList]

\* JSON.parse throws a SyntaxError on undefined (read as the text
\* 'undefined'), on '' and on text that is not JSON; reading a property of
\* the parsed null and calling map on a urlList that is not an array throw a
\* TypeError: each is caught and null returned.  A parsed number or array has
\* none of the properties read, and neither does an object that lacks them:
\* the reads give undefined and a record is returned.  A non-string argument
\* is logged and then parsed as its string form.
fromJSONString(jsonString) ==
  IF jsonString.kind \in {"undefined", "emptyString", "notJson"} THEN Null
  ELSE IF jsonString.kind = "jsonNull" THEN Null
  ELSE IF jsonString.kind = "jsonBadList" THEN Null
  ELSE LET has(f) == jsonString.kind = "json" /\ f \in DOMAIN jsonString
       IN  [activeUrl |-> IF has("activeUrl") THEN jsonString.activeUrl ELSE UndefinedUrl,
            lastActiveUrl |-> IF has("lastActiveUrl") THEN jsonString.lastActiveUrl
                              ELSE UndefinedUrl,
            lastDateCheck |-> IF has("lastDateCheck") /\ jsonString.lastDateCheck # << >>
                              THEN parseDate(jsonString.lastDateCheck) ELSE NullDate,
            startTime |-> IF has("startTime") /\ jsonString.startTime # << >>
                          THEN parseDate(jsonString.startTime) ELSE NullDate,
            urlList |-> IF has("urlList")
                        THEN [i \in 1..Len(jsonString.urlList) |->
                                [url |-> jsonString.urlList[i].url,
                                 totalTime |-> jsonString.urlList[i].totalTime]]
                        ELSE << >>]

\* `if (siteDataString)`: undefined and '' are falsy
isTruthy(siteDataString) == siteDataString.kind \notin {"undefined", "emptyString"}

\* getSiteObjData that parses whatever the read returned
getSiteObjData_AlwaysParses(st) == fromJSONString(st)

\* the result of fromJSONString is returned as it is, null included (the
\* instanceof check only logs)
getSiteObjData(st) ==
  IF isTruthy(st) THEN fromJSONString(st) ELSE NewUrlDataObj

setSiteObjData(siteDataObj) == toJSONString(siteDataObj)

(***************************************************************************)
(* State machine                                                           *)
(***************************************************************************)
NoOp == [name |-> "init", url |-> NullUrl, timeInterval |-> 0, currentTime |-> NullDate]

\* the calendar day the extension is installed on
FirstDay == [year |-> 2024, month |-> 12, date |-> 24]

\* the book before any call: no call made, no url has been active, no session
NoAcct ==
  [last |-> NullDate, gap |-> 0, wall |-> [u \in CleanedUrls \ {NullUrl} |-> 0],
   t0 |-> NullDate, base |-> 0, gapsWithin |-> TRUE]

\* a handler invocation that has not been made yet
NoTask ==
  [pc |-> "idle", handler |-> "none", url |-> NullUrl, stopTracking |-> FALSE,
   stored |-> NoData, now |-> NullDate, siteDataObj |-> NewUrlDataObj, doc |-> NoData]

\* no step of the JavaScript thread yet
NoJs == [task |-> 0, call |-> "none"]

Init ==
  /\ urlData = NewUrlDataObj
  /\ pre = NewUrlDataObj
  /\ op = NoOp
  /\ store = NoData
  /\ tasks = [h \in 1..MaxEvents |-> NoTask]
  /\ js = <<NoJs, NoJs>>
  /\ fired = 0
  /\ keyList = << >>
  /\ localStore = << >>
  /\ todayDate = FirstDay
  /\ acct = NoAcct

WithinBound(self) ==
  \A i \in 1..Len(self.urlList) : self.urlList[i].totalTime <= MaxTotal

\* the record is replaced by `next`, remembering the call that did it
Step(next, name, url, timeInterval, currentTime) ==
  /\ WithinBound(next)
  /\ urlData' = next
  /\ pre' = urlData
  /\ op' = [name |-> name, url |-> url, timeInterval |-> timeInterval,
            currentTime |-> currentTime]
  /\ UNCHANGED <<asyncVars, auxVars>>

StartSession ==
  \E url \in CleanedUrls, now \in Clock :
    /\ Step(startSession(urlData, url, now), "startSession", url, 0, now)
    /\ UNCHANGED store

EndSession ==
  \E timeInterval \in Intervals, now \in Clock :
    /\ Step(endSession(urlData, timeInterval, now), "endSession", NullUrl, timeInterval, now)
    /\ UNCHANGED store

CheckInterval ==
  \E timeInterval \in Intervals, now \in Clock :
    /\ Step(checkInterval(urlData, timeInterval, now), "checkInterval", NullUrl,
            timeInterval, now)
    /\ UNCHANGED store

Next == StartSession \/ EndSession \/ CheckInterval

Spec == Init /\ [][Next]_vars

(***************************************************************************)
(* The list operations of UrlDataObj next to the session calls, as the     *)
(* background script makes them: with its interval, at one of two          *)
(* consecutive clock readings.                                             *)
(***************************************************************************)
ListClock == {Date(Epoch), Date(Epoch + 1)}
\* urls handed to appendListItem: the strings cleanUrl returns
ListUrls == CleanedUrls \ {NullUrl}
\* elapsed times handed to addActiveTime
ElapsedTimes == 0..TIME_CHECK_INTERVAL_MILLISEC

AppendListItem ==
  \E url \in ListUrls :
    LET r == appendListItem(urlData, url)
    IN  /\ WithinBound(r.self)
        /\ urlData' = r.self
        /\ pre' = urlData
        /\ op' = [name |-> "appendListItem", url |-> url, timeInterval |-> 0,
                  currentTime |-> NullDate, result |-> r.result]
        /\ UNCHANGED <<store, tasks, js, fired, keyList, todayDate, localStore, acct>>

AddActiveTime ==
  \E elapsedTime \in ElapsedTimes :
    LET next == addActiveTime(urlData, elapsedTime)
    IN  /\ WithinBound(next)
        /\ urlData' = next
        /\ pre' = urlData
        /\ op' = [name |-> "addActiveTime", url |-> NullUrl, timeInterval |-> 0,
                  currentTime |-> NullDate, elapsedTime |-> elapsedTime]
        /\ UNCHANGED <<store, tasks, js, fired, keyList, todayDate, localStore, acct>>

ListStartSession ==
  \E url \in CleanedUrls, now \in ListClock :
    /\ Step(startSession(urlData, url, now), "startSession", url, 0, now)
    /\ UNCHANGED store

ListEndSession ==
  \E now \in ListClock :
    /\ Step(endSession(urlData, TIME_CHECK_INTERVAL_MILLISEC, now), "endSession", NullUrl,
            TIME_CHECK_INTERVAL_MILLISEC, now)
    /\ UNCHANGED store

ListCheckInterval ==
  \E now \in ListClock :
    /\ Step(checkInterval(urlData, TIME_CHECK_INTERVAL_MILLISEC, now), "checkInterval",
            NullUrl, TIME_CHECK_INTERVAL_MILLISEC, now)
    /\ UNCHANGED store

NextList ==
  AppendListItem \/ AddActiveTime \/ ListStartSession \/ ListEndSession
    \/ ListCheckInterval

SpecList == Init /\ [][NextList]_vars

(***************************************************************************)
(* One record driven by startSession, checkInterval and endSession with    *)
(* non-decreasing timestamps, and the book kept on it: acct.last is the    *)
(* time of the last call, acct.gap the time between the last two calls,    *)
(* acct.wall[u] the wall-clock time during which u was the record's        *)
(* activeUrl, acct.t0 and acct.base the start of the last session and its  *)
(* url's total at that moment, acct.gapsWithin whether every gap between   *)
(* consecutive calls since then was <= 2 * the interval of the call.       *)
(***************************************************************************)
\* now is not earlier than the last call
NotEarlier(now) == IF acct.last = NullDate THEN TRUE ELSE now[1] >= acct.last[1]

gapTo(now) == IF acct.last = NullDate THEN 0 ELSE now[1] - acct.last[1]

\* the active url has been active from the last call to now
wallAt(now) ==
  [u \in DOMAIN acct.wall |->
     acct.wall[u] + (IF urlData.activeUrl = u THEN gapTo(now) ELSE 0)]

SessionStart ==
  \E url \in CleanedUrls, now \in Clock :
    /\ NotEarlier(now)
    /\ urlData' = startSession(urlData, url, now)
    /\ pre' = urlData
    /\ op' = [name |-> "startSession", url |-> url, timeInterval |-> 0,
              currentTime |-> now]
    /\ acct' = [last |-> now, gap |-> gapTo(now), wall |-> wallAt(now), t0 |-> now,
                base |-> totalOf(urlData.urlList, url), gapsWithin |-> TRUE]
    /\ UNCHANGED <<store, asyncVars, keyList, todayDate, localStore>>

SessionCheckInterval ==
  \E timeInterval \in Intervals, now \in Clock :
    LET next == checkInterval(urlData, timeInterval, now)
    IN  /\ NotEarlier(now)
        /\ WithinBound(next)
        /\ urlData' = next
        /\ pre' = urlData
        /\ op' = [name |-> "checkInterval", url |-> NullUrl,
                  timeInterval |-> timeInterval, currentTime |-> now]
        /\ acct' = [acct EXCEPT !.last = now, !.gap = gapTo(now), !.wall = wallAt(now),
                                !.gapsWithin = @ /\ gapTo(now) <= 2 * timeInterval]
        /\ UNCHANGED <<store, asyncVars, keyList, todayDate, localStore>>

SessionEnd ==
  \E timeInterval \in Intervals, now \in Clock :
    LET next == endSession(urlData, timeInterval, now)
    IN  /\ NotEarlier(now)
        /\ WithinBound(next)
        /\ urlData' = next
        /\ pre' = urlData
        /\ op' = [name |-> "endSession", url |-> NullUrl,
                  timeInterval |-> timeInterval, currentTime |-> now]
        /\ acct' = [acct EXCEPT !.last = now, !.gap = gapTo(now), !.wall = wallAt(now),
                                !.gapsWithin = @ /\ gapTo(now) <= 2 * timeInterval]
        /\ UNCHANGED <<store, asyncVars, keyList, todayDate, localStore>>

NextSession == SessionStart \/ SessionCheckInterval \/ SessionEnd

SpecSession == Init /\ [][NextSession]_vars

(***************************************************************************)
(* The tracking path: background.js handlers.  Each handler reads the      *)
(* stored record, mutates it synchronously and writes it back.             *)
(***************************************************************************)
\* the uncaught TypeError of a method call on null
TypeError == [kind |-> "TypeError"]

updateActiveUrlSession(st, newActiveUrl, stopTracking, now) ==
  LET siteDataObj == getSiteObjData(st)
  IN  IF siteDataObj = Null THEN TypeError
      ELSE LET ended == endSession(siteDataObj, TIME_CHECK_INTERVAL_MILLISEC, now)
           IN  IF ~stopTracking THEN startSession(ended, newActiveUrl, now) ELSE ended

checkIntervalWraper(st, now) ==
  LET urlData_ == getSiteObjData(st)
  IN  IF urlData_ = Null THEN TypeError
      ELSE checkInterval(urlData_, TIME_CHECK_INTERVAL_MILLISEC, now)

HandlerNames == {"tabEnterOrChangeAction", "stopTracking", "checkIntervalWraper"}

\* one handler run from its read of the store to its write-back; a handler
\* that throws writes nothing
Handle(result, name, url, now) ==
  /\ pre' = getSiteObjData(store)
  /\ op' = [name |-> name, url |-> url, timeInterval |-> TIME_CHECK_INTERVAL_MILLISEC,
            currentTime |-> now, stored |-> store, threw |-> (result = TypeError)]
  /\ IF result = TypeError
     THEN UNCHANGED <<urlData, store>>
     ELSE /\ WithinBound(result)
          /\ urlData' = result
          /\ store' = setSiteObjData(result)

\* tabs.onUpdated, tabs.onActivated, windows.onFocusChanged (focused),
\* idle.onStateChanged ('active')
TabEnterOrChangeAction ==
  \E raw \in RawUrls, now \in Clock :
    LET activeUrl == cleanUrl(raw)
    IN  /\ Handle(updateActiveUrlSession(store, activeUrl, FALSE, now),
                  "tabEnterOrChangeAction", activeUrl, now)
        /\ UNCHANGED <<asyncVars, auxVars>>

\* idle.onStateChanged ('idle' / 'locked'), windows.onFocusChanged (WINDOW_ID_NONE):
\* updateActiveUrlSession('', true)
StopTracking ==
  \E now \in Clock :
    /\ Handle(updateActiveUrlSession(store, NullUrl, TRUE, now), "stopTracking",
              NullUrl, now)
    /\ UNCHANGED <<asyncVars, auxVars>>

CheckIntervalWraper ==
  \E now \in Clock :
    /\ Handle(checkIntervalWraper(store, now), "checkIntervalWraper", NullUrl, now)
    /\ UNCHANGED <<asyncVars, auxVars>>

NextTracking == TabEnterOrChangeAction \/ StopTracking \/ CheckIntervalWraper

SpecTracking == Init /\ [][NextTracking]_vars

(***************************************************************************)
(* The tracking path over whatever the service worker finds stored under   *)
(* the date key when it starts.                                            *)
(***************************************************************************)
\* a document a previous run of the worker wrote: a running session
StoredSession ==
  toJSONString([activeUrl |-> "a.com", lastActiveUrl |-> NullUrl,
                startTime |-> Date(Epoch), lastDateCheck |-> NullDate,
                urlList |-> <<[url |-> "a.com", totalTime |-> 1]>>])

StoredValues ==
  { NoData,
    [kind |-> "emptyString"],
    [kind |-> "notJson"],
    [kind |-> "jsonNull"],
    [kind |-> "jsonNumber"],
    [kind |-> "jsonArray"],
    [kind |-> "jsonBadList"],
    [kind |-> "number"],
    [kind |-> "json"],
    StoredSession }

InitStored ==
  /\ urlData = NewUrlDataObj
  /\ pre = NewUrlDataObj
  /\ op = NoOp
  /\ store \in StoredValues
  /\ tasks = [h \in 1..MaxEvents |-> NoTask]
  /\ js = <<NoJs, NoJs>>
  /\ fired = 0
  /\ keyList = << >>
  /\ localStore = << >>
  /\ todayDate = FirstDay
  /\ acct = NoAcct

SpecStored == InitStored /\ [][NextTracking]_vars

(***************************************************************************)
(* The asynchronous handlers.  A handler suspends at                       *)
(* `await getSiteObjData()` until chrome.storage.local.get has answered;   *)
(* from the answer on it runs without suspending through its calls on the  *)
(* record to setSiteObjData, which issues chrome.storage.local.set and     *)
(* returns without awaiting it.  The JavaScript thread runs one listener   *)
(* or continuation to its next suspension point at a time; the storage     *)
(* backend answers reads and applies writes on its own, in any order.      *)
(*                                                                         *)
(* pc of a task: "idle", "reading" (get issued), "loaded" (get answered,   *)
(* continuation queued), "got" (getSiteObjData returned), "ended",         *)
(* "started", "checked" (the calls on the record made), "writing" (set     *)
(* issued), "done" (set applied) and "threw".                              *)
(***************************************************************************)
\* the handler stays suspended after its ended step as well
Suspended_AwaitAfterEnd(pc) ==
  pc \in {"idle", "reading", "loaded", "writing", "done", "threw", "ended"}

\* the task is not running on the JavaScript thread
Suspended(pc) == pc \in {"idle", "reading", "loaded", "writing", "done", "threw"}

JsIdle == \A h \in 1..MaxEvents : Suspended(tasks[h].pc)

JsStep(h, call) == js' = <<js[2], [task |-> h, call |-> call]>>

\* an event is delivered and its listener runs up to the await of the read
Dispatch(h, handler, url, stopTracking) ==
  /\ fired < MaxEvents
  /\ h = fired + 1
  /\ JsIdle
  /\ tasks' = [tasks EXCEPT ![h] = [@ EXCEPT !.pc = "reading", !.handler = handler,
                                              !.url = url, !.stopTracking = stopTracking]]
  /\ fired' = fired + 1
  /\ JsStep(h, "dispatch")

\* tabEnterOrChangeAction(url): updateActiveUrlSession(cleanUrl(url), false)
DispatchTab ==
  \E h \in 1..MaxEvents, raw \in RawUrls :
    /\ Dispatch(h, "updateActiveUrlSession", cleanUrl(raw), FALSE)
    /\ UNCHANGED <<keyList, todayDate, localStore, acct, urlData, pre, op, store>>

\* updateActiveUrlSession('', true)
DispatchStop ==
  \E h \in 1..MaxEvents :
    /\ Dispatch(h, "updateActiveUrlSession", NullUrl, TRUE)
    /\ UNCHANGED <<keyList, todayDate, localStore, acct, urlData, pre, op, store>>

\* the timeCheck alarm: checkIntervalWraper()
DispatchAlarm ==
  \E h \in 1..MaxEvents :
    /\ Dispatch(h, "checkIntervalWraper", NullUrl, FALSE)
    /\ UNCHANGED <<keyList, todayDate, localStore, acct, urlData, pre, op, store>>

\* chrome.storage.local.get answers with what is stored at that moment
StorageGet ==
  \E h \in 1..MaxEvents :
    /\ tasks[h].pc = "reading"
    /\ tasks' = [tasks EXCEPT ![h] = [@ EXCEPT !.pc = "loaded", !.stored = store]]
    /\ UNCHANGED <<keyList, todayDate, localStore, acct, urlData, pre, op, store, js, fired>>

\* the wall clock of the asynchronous view: one tick per event delivered
Now == Date(Epoch + fired)

\* the continuation starts: getSiteObjData parses the answer and returns
GetSiteObjData ==
  \E h \in 1..MaxEvents :
    /\ tasks[h].pc = "loaded"
    /\ JsIdle
    /\ tasks' = [tasks EXCEPT ![h] = [@ EXCEPT !.pc = "got", !.now = Now,
                                                !.siteDataObj = getSiteObjData(tasks[h].stored)]]
    /\ JsStep(h, "getSiteObjData")
    /\ UNCHANGED <<keyList, todayDate, localStore, acct, urlData, pre, op, store, fired>>

\* a method call on the null that getSiteObjData returned
Throw ==
  \E h \in 1..MaxEvents :
    /\ tasks[h].pc = "got"
    /\ tasks[h].siteDataObj = Null
    /\ tasks' = [tasks EXCEPT ![h] = [NoTask EXCEPT !.pc = "threw"]]
    /\ JsStep(h, "TypeError")
    /\ UNCHANGED <<keyList, todayDate, localStore, acct, urlData, pre, op, store, fired>>

EndSessionCall ==
  \E h \in 1..MaxEvents :
    /\ tasks[h].pc = "got"
    /\ tasks[h].handler = "updateActiveUrlSession"
    /\ tasks[h].siteDataObj # Null
    /\ tasks' = [tasks EXCEPT ![h] =
                   [@ EXCEPT !.pc = "ended",
                             !.siteDataObj = endSession(tasks[h].siteDataObj,
                                                        TIME_CHECK_INTERVAL_MILLISEC,
                                                        tasks[h].now)]]
    /\ JsStep(h, "endSession")
    /\ UNCHANGED <<keyList, todayDate, localStore, acct, urlData, pre, op, store, fired>>

StartSessionCall ==
  \E h \in 1..MaxEvents :
    /\ tasks[h].pc = "ended"
    /\ ~tasks[h].stopTracking
    /\ \A g \in 1..MaxEvents : g # h => Suspended(tasks[g].pc)
    /\ tasks' = [tasks EXCEPT ![h] =
                   [@ EXCEPT !.pc = "started",
                             !.siteDataObj = startSession(tasks[h].siteDataObj,
                                                          tasks[h].url, tasks[h].now)]]
    /\ JsStep(h, "startSession")
    /\ UNCHANGED <<keyList, todayDate, localStore, acct, urlData, pre, op, store, fired>>

CheckIntervalCall ==
  \E h \in 1..MaxEvents :
    /\ tasks[h].pc = "got"
    /\ tasks[h].handler = "checkIntervalWraper"
    /\ tasks[h].siteDataObj # Null
    /\ tasks' = [tasks EXCEPT ![h] =
                   [@ EXCEPT !.pc = "checked",
                             !.siteDataObj = checkInterval(tasks[h].siteDataObj,
                                                           TIME_CHECK_INTERVAL_MILLISEC,
                                                           tasks[h].now)]]
    /\ JsStep(h, "checkInterval")
    /\ UNCHANGED <<keyList, todayDate, localStore, acct, urlData, pre, op, store, fired>>

\* setSiteObjData serialises the record and issues the write; the handler returns
SetSiteObjData ==
  \E h \in 1..MaxEvents :
    /\ \/ tasks[h].pc \in {"started", "checked"}
       \/ tasks[h].pc = "ended" /\ tasks[h].stopTracking
    /\ \A g \in 1..MaxEvents : g # h => Suspended(tasks[g].pc)
    /\ tasks' = [tasks EXCEPT ![h] = [NoTask EXCEPT !.pc = "writing",
                                                     !.doc = setSiteObjData(tasks[h].siteDataObj)]]
    /\ JsStep(h, "setSiteObjData")
    /\ UNCHANGED <<keyList, todayDate, localStore, acct, urlData, pre, op, store, fired>>

\* chrome.storage.local.set is applied
StorageSet ==
  \E h \in 1..MaxEvents :
    /\ tasks[h].pc = "writing"
    /\ store' = tasks[h].doc
    /\ tasks' = [tasks EXCEPT ![h] = [NoTask EXCEPT !.pc = "done"]]
    /\ UNCHANGED <<keyList, todayDate, localStore, acct, urlData, pre, op, js, fired>>

NextAsync ==
  \/ DispatchTab \/ DispatchStop \/ DispatchAlarm
  \/ StorageGet \/ GetSiteObjData \/ Throw
  \/ EndSessionCall \/ StartSessionCall \/ CheckIntervalCall
  \/ SetSiteObjData \/ StorageSet

SpecAsync == InitStored /\ [][NextAsync]_vars

(***************************************************************************)
(* The heartbeat and the tab handlers over a store that holds a day record *)
(* or nothing.  op keeps the handlers of the events delivered, in their    *)
(* order, and the url of the last tab event.                               *)
(***************************************************************************)
NoEvent == [name |-> "init", handlers |-> << >>, url |-> NullUrl]

InitOverlap ==
  /\ urlData = NewUrlDataObj
  /\ pre = NewUrlDataObj
  /\ op = NoEvent
  /\ store \in {NoData, StoredSession}
  /\ tasks = [h \in 1..MaxEvents |-> NoTask]
  /\ js = <<NoJs, NoJs>>
  /\ fired = 0
  /\ keyList = << >>
  /\ localStore = << >>
  /\ todayDate = FirstDay
  /\ acct = NoAcct

\* tabEnterOrChangeAction(url): updateActiveUrlSession(cleanUrl(url), false)
TabChange ==
  \E h \in 1..MaxEvents, raw \in RawUrls :
    /\ Dispatch(h, "updateActiveUrlSession", cleanUrl(raw), FALSE)
    /\ op' = [name |-> "tabEnterOrChangeAction",
              handlers |-> Append(op.handlers, "updateActiveUrlSession"),
              url |-> cleanUrl(raw)]
    /\ UNCHANGED <<keyList, todayDate, localStore, acct, urlData, pre, store>>

\* the timeCheck alarm: checkIntervalWraper()
Heartbeat ==
  \E h \in 1..MaxEvents :
    /\ Dispatch(h, "checkIntervalWraper", NullUrl, FALSE)
    /\ op' = [name |-> "checkIntervalWraper",
              handlers |-> Append(op.handlers, "checkIntervalWraper"),
              url |-> op.url]
    /\ UNCHANGED <<keyList, todayDate, localStore, acct, urlData, pre, store>>

NextOverlap ==
  \/ TabChange \/ Heartbeat
  \/ StorageGet \/ GetSiteObjData
  \/ EndSessionCall \/ StartSessionCall \/ CheckIntervalCall
  \/ SetSiteObjData \/ StorageSet

SpecOverlap == InitOverlap /\ [][NextOverlap]_vars

(***************************************************************************)
(* The first UrlDataObj (src/src/urlDataObj.js, "simple mode"): activeUrl, *)
(* startTime and urlList only, no heartbeat.  A number is the one-element  *)
(* tuple of its value where null can take its place.                       *)
(***************************************************************************)
NewSimpleUrlDataObj == [activeUrl |-> NullUrl, startTime |-> NullDate, urlList |-> << >>]

NullNumber == << >>
Number(n) == <<n>>

\* `instanceof Date` and a time value that is not NaN
isValidDate(d) == d # NullDate

calcTimeElapsedSimple(startDate, endDate) ==
  IF ~isValidDate(startDate) THEN NullNumber
  ELSE IF ~isValidDate(endDate) THEN NullNumber
  ELSE Number(endDate[1] - startDate[1])

startSessionSimple(self, url, currentTime) ==
  [self EXCEPT !.activeUrl = url, !.startTime = currentTime]

\* `totalTime += null` adds 0; a pushed entry holds the value as it is
endSessionSimple(self, currentTime) ==
  IF self.activeUrl = NullUrl THEN self
  ELSE LET i == findIndex(self.urlList, self.activeUrl)
           elapsedTime == calcTimeElapsedSimple(self.startTime, currentTime)
           urlList ==
             IF i # 0
             THEN [self.urlList EXCEPT ![i].totalTime =
                     @ + (IF elapsedTime = NullNumber THEN 0 ELSE elapsedTime[1])]
             ELSE Append(self.urlList,
                         [url |-> self.activeUrl,
                          totalTime |-> IF elapsedTime = NullNumber THEN NullNumber
                                        ELSE elapsedTime[1]])
       IN  [activeUrl |-> NullUrl, startTime |-> NullDate, urlList |-> urlList]

InitSimple ==
  /\ urlData = NewSimpleUrlDataObj
  /\ pre = NewSimpleUrlDataObj
  /\ op = NoOp
  /\ store = NoData
  /\ tasks = [h \in 1..MaxEvents |-> NoTask]
  /\ js = <<NoJs, NoJs>>
  /\ fired = 0
  /\ keyList = << >>
  /\ localStore = << >>
  /\ todayDate = FirstDay
  /\ acct = NoAcct

\* totals stay within MaxTotal of zero
WithinBoundSimple(self) ==
  \A i \in 1..Len(self.urlList) :
    /\ self.urlList[i].totalTime <= MaxTotal
    /\ self.urlList[i].totalTime >= -MaxTotal

SimpleStartSession ==
  \E url \in CleanedUrls \ {NullUrl}, now \in Clock :
    /\ urlData' = startSessionSimple(urlData, url, now)
    /\ pre' = urlData
    /\ op' = [name |-> "startSessionSimple", url |-> url, currentTime |-> now]
    /\ UNCHANGED <<store, asyncVars, auxVars>>

SimpleEndSession ==
  \E now \in Clock :
    /\ WithinBoundSimple(endSessionSimple(urlData, now))
    /\ urlData' = endSessionSimple(urlData, now)
    /\ pre' = urlData
    /\ op' = [name |-> "endSessionSimple", currentTime |-> now,
              elapsedTime |-> calcTimeElapsedSimple(urlData.startTime, now)]
    /\ UNCHANGED <<store, asyncVars, auxVars>>

NextSimple == SimpleStartSession \/ SimpleEndSession

SpecSimple == InitSimple /\ [][NextSimple]_vars

(***************************************************************************)
(* The display helpers of utils.js: sortByUrlUsageTime,                    *)
(* combineAndSumTimesWithOccurrences and calcAverages.                     *)
(***************************************************************************)
\* longest list given to sortByUrlUsageTime and calcAverages
MaxLen == 3
\* largest totalTime of an entry given to the helpers
MaxTime == 2
\* most day lists given to combineAndSumTimesWithOccurrences
MaxDays == 2

SeqsUpTo(S, n) == UNION { [1..k -> S] : k \in 0..n }

AggUrls == {"a.com", "b.com", "c.com"}
AggEntries == [url : AggUrls, totalTime : 0..MaxTime]
EntryLists == SeqsUpTo(AggEntries, MaxLen)

\* the comparator handed to Array.prototype.sort, with the order reversed
compareByUsage_Ascending(a, b) ==
  IF a.totalTime < b.totalTime THEN -1
  ELSE IF a.totalTime > b.totalTime THEN 1
  ELSE 0

\* the comparator handed to Array.prototype.sort
compareByUsage(a, b) ==
  IF a.totalTime < b.totalTime THEN 1
  ELSE IF a.totalTime > b.totalTime THEN -1
  ELSE 0

\* Array.prototype.sort is stable (ECMAScript 2019): x goes behind every
\* element that does not compare greater than it
insertStable(sorted, x) ==
  LET k == Cardinality({ i \in 1..Len(sorted) : compareByUsage(sorted[i], x) <= 0 })
  IN  SubSeq(sorted, 1, k) \o <<x>> \o SubSeq(sorted, k + 1, Len(sorted))

RECURSIVE sortByUrlUsageTime(_)
sortByUrlUsageTime(urlList) ==
  IF urlList = << >> THEN << >>
  ELSE insertStable(sortByUrlUsageTime(SubSeq(urlList, 1, Len(urlList) - 1)),
                    urlList[Len(urlList)])

\* arrays.forEach(arr => arr.forEach(obj => ...)) visits the entries in this order
RECURSIVE flatten(_)
flatten(arrays) ==
  IF arrays = << >> THEN << >>
  ELSE arrays[1] \o flatten(Tail(arrays))

\* one visit of the inner forEach, never incrementing occurrences
combineEntry_CountsFirstOnly(combinedData, obj) ==
  IF \E i \in 1..Len(combinedData) : combinedData[i].url = obj.url
  THEN LET i == CHOOSE j \in 1..Len(combinedData) : combinedData[j].url = obj.url
       IN  [combinedData EXCEPT ![i].totalTime = @ + obj.totalTime]
  ELSE Append(combinedData,
              [url |-> obj.url, totalTime |-> obj.totalTime, occurrences |-> 1])

\* one visit of the inner forEach; combinedData is the Map, kept as the
\* sequence of its entries in insertion order
combineEntry(combinedData, obj) ==
  IF \E i \in 1..Len(combinedData) : combinedData[i].url = obj.url
  THEN LET i == CHOOSE j \in 1..Len(combinedData) : combinedData[j].url = obj.url
       IN  [combinedData EXCEPT ![i].totalTime = @ + obj.totalTime,
                                ![i].occurrences = @ + 1]
  ELSE Append(combinedData,
              [url |-> obj.url, totalTime |-> obj.totalTime, occurrences |-> 1])

RECURSIVE combineAll(_, _)
combineAll(combinedData, objs) ==
  IF objs = << >> THEN combinedData
  ELSE combineAll(combineEntry(combinedData, objs[1]), Tail(objs))

combineAndSumTimesWithOccurrences(arrays) == combineAll(<< >>, flatten(arrays))

\* a JavaScript number that is a quotient of two integers, kept exactly
Quotient(n, d) == [num |-> n, den |-> d]
Zero == Quotient(0, 1)
\* an argument that was not passed
Undefined == << >>
\* divideBy > 0, false when divideBy is undefined
isPositive(x) == IF x = Undefined THEN FALSE ELSE x[1] > 0

\* calcAverages dividing whenever a divisor was passed
calcAverages_NoGuard(dataArray, divideBy) ==
  [i \in 1..Len(dataArray) |->
     [url |-> dataArray[i].url,
      avg |-> IF divideBy # Undefined
              THEN Quotient(dataArray[i].totalTime, divideBy[1])
              ELSE Zero]]

calcAverages(dataArray, divideBy) ==
  [i \in 1..Len(dataArray) |->
     [url |-> dataArray[i].url,
      avg |-> IF isPositive(divideBy)
              THEN Quotient(dataArray[i].totalTime, divideBy[1])
              ELSE Zero]]

\* the urlLists of stored day records: no url twice in one list
DayUrls == {"a.com", "b.com"}
DayLists ==
  { l \in SeqsUpTo([url : DayUrls, totalTime : 0..MaxTime], Cardinality(DayUrls)) :
      \A i, j \in 1..Len(l) : l[i].url = l[j].url => i = j }
Divisors == {Undefined} \cup { <<n>> : n \in -1..MaxDays }

(***************************************************************************)
(* Date keys.  A string is the sequence of its characters, a calendar date *)
(* the record of the local year, month (1..12) and day of month that       *)
(* getFullYear, getMonth() + 1 and getDate report.                         *)
(***************************************************************************)
\* the characters that occur, in the order of their UTF-16 code units
AsciiOrder ==
  <<",", "-", "/", "0", "1", "2", "3", "4", "5", "6", "7", "8", "9",
    "L", "U", "b", "c", "d", "e", "f", "i", "k", "l", "n", "o", "r", "s",
    "t", "u">>
charCode(c) == CHOOSE i \in 1..Len(AsciiOrder) : AsciiOrder[i] = c
DecimalDigits == <<"0", "1", "2", "3", "4", "5", "6", "7", "8", "9">>
isDigit(c) == \E i \in 1..Len(DecimalDigits) : DecimalDigits[i] = c

\* a <= b on two strings
RECURSIVE lessThan_OrEqual(_, _)
lessThan_OrEqual(a, b) ==
  IF a = << >> THEN TRUE
  ELSE IF b = << >> THEN FALSE
  ELSE IF a[1] = b[1] THEN lessThan_OrEqual(Tail(a), Tail(b))
  ELSE charCode(a[1]) < charCode(b[1])

\* a < b on two strings: the first differing code unit decides, a proper
\* prefix is smaller
RECURSIVE lessThan(_, _)
lessThan(a, b) ==
  IF b = << >> THEN FALSE
  ELSE IF a = << >> THEN TRUE
  ELSE IF a[1] = b[1] THEN lessThan(Tail(a), Tail(b))
  ELSE charCode(a[1]) < charCode(b[1])

\* String(n) for a non-negative integer
RECURSIVE decimal(_)
decimal(n) ==
  IF n < 10 THEN <<DecimalDigits[n + 1]>>
  ELSE decimal(n \div 10) \o <<DecimalDigits[(n % 10) + 1]>>

\* s.padStart(2, '0')
padStart2(s) == IF Len(s) < 2 THEN <<"0">> \o s ELSE s

isLeapYear(y) == (y % 4 = 0 /\ y % 100 # 0) \/ y % 400 = 0
daysInMonth(y, m) ==
  IF m = 2 THEN (IF isLeapYear(y) THEN 29 ELSE 28)
  ELSE IF m \in {4, 6, 9, 11} THEN 30
  ELSE 31

CalDate(y, m, d) == [year |-> y, month |-> m, date |-> d]

\* Date.prototype.setDate that stops at the first of the month
setDate_StopsAtFirst(self, dayValue) ==
  IF dayValue < 1 THEN [self EXCEPT !.date = 1]
  ELSE [self EXCEPT !.date = dayValue]

\* the date that day number dayValue of month (y, m) falls on: days before
\* the first are taken from the months before, days after the last from the
\* months after
RECURSIVE makeDay(_, _, _)
makeDay(y, m, dayValue) ==
  IF dayValue < 1
  THEN (IF m = 1 THEN makeDay(y - 1, 12, dayValue + daysInMonth(y - 1, 12))
        ELSE makeDay(y, m - 1, dayValue + daysInMonth(y, m - 1)))
  ELSE IF dayValue > daysInMonth(y, m)
  THEN (IF m = 12 THEN makeDay(y + 1, 1, dayValue - daysInMonth(y, m))
        ELSE makeDay(y, m + 1, dayValue - daysInMonth(y, m)))
  ELSE CalDate(y, m, dayValue)

\* Date.prototype.setDate
setDate(self, dayValue) == makeDay(self.year, self.month, dayValue)

getDateKey(dateKey) ==
  decimal(dateKey.year) \o <<"-">> \o padStart2(decimal(dateKey.month))
    \o <<"-">> \o padStart2(decimal(dateKey.date))

\* JavaScript values found in a key list
Str(s) == [type |-> "string", str |-> s]
NonStrings ==
  { [type |-> "number",    str |-> <<"1", "2", "3">>],
    [type |-> "boolean",   str |-> <<"t", "r", "u", "e">>],
    [type |-> "null",      str |-> <<"n", "u", "l", "l">>],
    [type |-> "undefined", str |-> <<"u", "n", "d", "e", "f", "i", "n", "e", "d">>],
    [type |-> "array",     items |-> <<getDateKey(CalDate(2025, 5, 31))>>] }

\* ToString of the language: a string is itself, a primitive its literal,
\* an array of strings its items joined with commas
RECURSIVE join(_)
join(items) ==
  IF items = << >> THEN << >>
  ELSE IF Len(items) = 1 THEN items[1]
  ELSE items[1] \o <<",">> \o join(Tail(items))
toStringOf(v) == IF v.type = "array" THEN join(v.items) ELSE v.str

\* /^\d{4}-(0[1-9]|1[0-2])-(0[1-9]|[12]\d|3[01])$/ on a string
regexMatches(s) ==
  IF Len(s) # 10 THEN FALSE
  ELSE /\ \A i \in 1..4 : isDigit(s[i])
       /\ s[5] = "-"
       /\ \/ s[6] = "0" /\ s[7] \in {"1", "2", "3", "4", "5", "6", "7", "8", "9"}
          \/ s[6] = "1" /\ s[7] \in {"0", "1", "2"}
       /\ s[8] = "-"
       /\ \/ s[9] = "0" /\ s[10] \in {"1", "2", "3", "4", "5", "6", "7", "8", "9"}
          \/ s[9] \in {"1", "2"} /\ isDigit(s[10])
          \/ s[9] = "3" /\ s[10] \in {"0", "1"}

\* regex.test(x) converts x to a string first
regexTest(x) == regexMatches(toStringOf(x))

filterDateKeys(chromeKeyList) == SelectSeq(chromeKeyList, regexTest)

\* the keys are strings (the keys of chrome.storage.local); the sorted
\* dateKeyList the function also builds is never read
getGreaterEqualOrLessThenKey(dateKeysArray, periodInDays, today) ==
  LET periodDateKey == getDateKey(setDate(today, today.date - periodInDays))
  IN  [graterEq |-> SelectSeq(dateKeysArray, LAMBDA key : ~lessThan(key, periodDateKey)),
       less     |-> SelectSeq(dateKeysArray, LAMBDA key : lessThan(key, periodDateKey))]

\* the key the block list is stored under
BLOCK_LIST_DATA_KEY == <<"b", "l", "o", "c", "k", "e", "d", "U", "r", "l", "L", "i", "s", "t">>

\* strings offered to filterDateKeys
KeyStrings ==
  { <<"2", "0", "2", "3", "-", "0", "2", "-", "2", "9">>,
    <<"2", "0", "2", "5", "-", "0", "5", "-", "3", "1">>,
    <<"2", "0", "2", "5", "/", "0", "5", "/", "3", "1">>,
    <<"2", "0", "2", "5", "-", "5", "-", "3", "1">>,
    <<"2", "0", "2", "5", "-", "0", "5", "-", "1">>,
    <<"2", "0", "2", "5", "-", "1", "3", "-", "0", "1">>,
    <<"2", "0", "2", "5", "-", "0", "0", "-", "1", "0">>,
    <<"2", "0", "2", "5", "-", "0", "1", "-", "3", "2">>,
    <<"2", "0", "2", "5", "-", "1", "0", "-", "0", "0">>,
    BLOCK_LIST_DATA_KEY }
KeyValues == { Str(s) : s \in KeyStrings } \cup NonStrings

\* longest key list given to filterDateKeys and getGreaterEqualOrLessThenKey
MaxKeys == 2
\* the retention period of the background script
MAX_DATES_TO_RETAIN == 7

\* values of `today` and the days whose keys are offered around them
Todays ==
  { CalDate(2025, 5, 31), CalDate(2025, 1, 3), CalDate(2024, 3, 2), CalDate(2025, 3, 1) }
PoolDates ==
  Todays \cup
  { CalDate(2025, 6, 1), CalDate(2025, 5, 24), CalDate(2025, 5, 23),
    CalDate(2024, 12, 27), CalDate(2024, 12, 26),
    CalDate(2024, 2, 24), CalDate(2024, 2, 23), CalDate(2025, 2, 22) }
KeyPool == { getDateKey(d) : d \in PoolDates } \cup {BLOCK_LIST_DATA_KEY}
Periods == {0, 1, MAX_DATES_TO_RETAIN}

(***************************************************************************)
(* Retention: the day records accumulate under their date keys and the     *)
(* daily clean-up alarm removes the old ones.  The days pass one at a      *)
(* time; the clean-up is taken as one step and chrome.storage.local as     *)
(* carrying out every removal.                                             *)
(***************************************************************************)
\* the days pass up to LastDay days after FirstDay
LastDay == 9

\* days from the first of January 2023 to a date
RECURSIVE daysBeforeYear(_)
daysBeforeYear(y) ==
  IF y <= 2023 THEN 0
  ELSE daysBeforeYear(y - 1) + (IF isLeapYear(y - 1) THEN 366 ELSE 365)
RECURSIVE daysBeforeMonth(_, _)
daysBeforeMonth(y, m) ==
  IF m <= 1 THEN 0 ELSE daysBeforeMonth(y, m - 1) + daysInMonth(y, m - 1)
dayNumber(d) == daysBeforeYear(d.year) + daysBeforeMonth(d.year, d.month) + d.date

hasKey(keys, key) == \E i \in 1..Len(keys) : keys[i] = key
withKey(keys, key) == IF hasKey(keys, key) THEN keys ELSE Append(keys, key)

retentionFrame == <<urlData, pre, store, asyncVars, localStore, acct>>

\* midnight passes
NextDay ==
  /\ dayNumber(todayDate) - dayNumber(FirstDay) < LastDay
  /\ todayDate' = setDate(todayDate, todayDate.date + 1)
  /\ op' = [name |-> "nextDay"]
  /\ UNCHANGED <<keyList, retentionFrame>>

\* setSiteObjData stores the day record under getDateKey()
StoreDayRecord ==
  /\ keyList' = withKey(keyList, getDateKey(todayDate))
  /\ op' = [name |-> "setSiteObjData"]
  /\ UNCHANGED <<todayDate, retentionFrame>>

StoreBlockList ==
  /\ keyList' = withKey(keyList, BLOCK_LIST_DATA_KEY)
  /\ op' = [name |-> "setBlockedSiteList"]
  /\ UNCHANGED <<todayDate, retentionFrame>>

dateStorageCleanUp(chromeKeyList, today) ==
  LET deleteKeyList ==
        getGreaterEqualOrLessThenKey(chromeKeyList, MAX_DATES_TO_RETAIN, today).less
  IN  SelectSeq(chromeKeyList, LAMBDA key : ~hasKey(deleteKeyList, key))

DateStorageCleanUp ==
  /\ keyList' = dateStorageCleanUp(keyList, todayDate)
  /\ op' = [name |-> "dateStorageCleanUp", chromeKeyList |-> keyList,
            today |-> todayDate]
  /\ UNCHANGED <<todayDate, retentionFrame>>

NextRetention == NextDay \/ StoreDayRecord \/ StoreBlockList \/ DateStorageCleanUp

SpecRetention == Init /\ [][NextRetention]_vars

(***************************************************************************)
(* Tracking across days: chrome.storage.local holds one document per date  *)
(* key.  getSiteObjData reads the document under getDateKey() and          *)
(* setSiteObjData stores under getDateKey(), each asking the clock of the  *)
(* moment it runs at; midnight can pass between the two.  One handler is   *)
(* in flight at a time here (their overlap is the subject of the           *)
(* asynchronous handlers above).                                           *)
(***************************************************************************)
\* midnight passes up to MaxNights times
MaxNights == 1

\* chrome.storage.local.get([key]): result[key], undefined for a missing key
getChromeLocalData(items, key) ==
  IF \E i \in 1..Len(items) : items[i].key = key
  THEN items[CHOOSE i \in 1..Len(items) : items[i].key = key].value
  ELSE NoData

\* chrome.storage.local.set({ [key]: data })
storeChromeLocalData(items, key, data) ==
  IF \E i \in 1..Len(items) : items[i].key = key
  THEN [i \in 1..Len(items) |->
          IF items[i].key = key THEN [items[i] EXCEPT !.value = data] ELSE items[i]]
  ELSE Append(items, [key |-> key, value |-> data])

\* no handler has run; idle tells whether the last session event handled
\* was an 'idle' / 'locked' state change or the loss of the window focus
NoHandler == [name |-> "init", idle |-> FALSE, currentTime |-> NullDate]

InitDays ==
  /\ urlData = NewUrlDataObj
  /\ pre = NewUrlDataObj
  /\ op = NoHandler
  /\ store = NoData
  /\ tasks = [h \in 1..MaxEvents |-> NoTask]
  /\ js = <<NoJs, NoJs>>
  /\ fired = 0
  /\ keyList = << >>
  /\ localStore = << >>
  /\ todayDate = FirstDay
  /\ acct = NoAcct

daysFrame == <<store, asyncVars, keyList, acct>>

\* a handler starts and awaits getSiteObjData(): the document under the
\* date key of the moment of the read
Read(handler, url) ==
  /\ op.name # "reading"
  /\ op' = [name |-> "reading", handler |-> handler, url |-> url, idle |-> op.idle,
            currentTime |-> op.currentTime,
            readKey |-> getDateKey(todayDate),
            stored |-> getChromeLocalData(localStore, getDateKey(todayDate))]

TabEvent ==
  \E raw \in RawUrls :
    /\ Read("tabEnterOrChangeAction", cleanUrl(raw))
    /\ UNCHANGED <<urlData, pre, localStore, todayDate, daysFrame>>

StopEvent ==
  /\ Read("stopTracking", NullUrl)
  /\ UNCHANGED <<urlData, pre, localStore, todayDate, daysFrame>>

AlarmEvent ==
  /\ Read("checkIntervalWraper", NullUrl)
  /\ UNCHANGED <<urlData, pre, localStore, todayDate, daysFrame>>

\* each handler resumes at a later reading of the clock than the one before
LaterThanLast(now) == IF op.currentTime = NullDate THEN TRUE ELSE now[1] > op.currentTime[1]

\* the handler resumes with the document read, changes the record and
\* setSiteObjData stores it under the date key of the moment of the write
Resume ==
  /\ op.name = "reading"
  /\ \E now \in Clock :
       LET result == IF op.handler = "checkIntervalWraper"
                     THEN checkIntervalWraper(op.stored, now)
                     ELSE updateActiveUrlSession(op.stored, op.url,
                                                 op.handler = "stopTracking", now)
       IN  /\ LaterThanLast(now)
           /\ result # TypeError
           /\ WithinBound(result)
           /\ pre' = getSiteObjData(op.stored)
           /\ urlData' = result
           /\ localStore' = storeChromeLocalData(localStore, getDateKey(todayDate),
                                                 setSiteObjData(result))
           /\ op' = [name |-> "written", handler |-> op.handler, url |-> op.url,
                     idle |-> IF op.handler = "stopTracking" THEN TRUE
                              ELSE IF op.handler = "tabEnterOrChangeAction" THEN FALSE
                              ELSE op.idle,
                     currentTime |-> now,
                     readKey |-> op.readKey, writeKey |-> getDateKey(todayDate)]
  /\ UNCHANGED <<todayDate, daysFrame>>

\* midnight passes, also while a handler awaits its read
Midnight ==
  /\ dayNumber(todayDate) - dayNumber(FirstDay) < MaxNights
  /\ todayDate' = setDate(todayDate, todayDate.date + 1)
  /\ UNCHANGED <<urlData, pre, op, localStore, daysFrame>>

NextDays == TabEvent \/ StopEvent \/ AlarmEvent \/ Resume \/ Midnight

SpecDays == InitDays /\ [][NextDays]_vars

(***************************************************************************)
(* The helpers of utils.js are pure: a behaviour is one call.  The initial *)
(* state holds the call about to be made, with arguments drawn from the    *)
(* sets above, and the action of the function called replaces it by the    *)
(* call made and its result.                                               *)
(***************************************************************************)
Pending(fn, args) == [name |-> "pending", fn |-> fn, args |-> args]
isPending(fn) == op.name = "pending" /\ op.fn = fn

InitHelpers ==
  /\ urlData = NewUrlDataObj
  /\ pre = NewUrlDataObj
  /\ store = NoData
  /\ tasks = [h \in 1..MaxEvents |-> NoTask]
  /\ js = <<NoJs, NoJs>>
  /\ fired = 0
  /\ keyList = << >>
  /\ localStore = << >>
  /\ todayDate = FirstDay
  /\ acct = NoAcct
  /\ \/ \E urlList \in EntryLists :
          op = Pending("sortByUrlUsageTime", [urlList |-> urlList])
     \/ \E arrays \in SeqsUpTo(DayLists, MaxDays) :
          op = Pending("combineAndSumTimesWithOccurrences", [arrays |-> arrays])
     \/ \E dataArray \in EntryLists, divideBy \in Divisors :
          op = Pending("calcAverages", [dataArray |-> dataArray, divideBy |-> divideBy])
     \/ \E chromeKeyList \in SeqsUpTo(KeyValues, MaxKeys) :
          op = Pending("filterDateKeys", [chromeKeyList |-> chromeKeyList])
     \/ \E dateKeysArray \in SeqsUpTo(KeyPool, MaxKeys), periodInDays \in Periods,
           today \in Todays :
          op = Pending("getGreaterEqualOrLessThenKey",
                       [dateKeysArray |-> dateKeysArray,
                        periodInDays |-> periodInDays, today |-> today])

\* the variables the helpers leave alone: they compute on their arguments only
helperFrame == <<urlData, pre, store, asyncVars, auxVars>>

SortByUrlUsageTime ==
  /\ isPending("sortByUrlUsageTime")
  /\ op' = [name |-> op.fn, urlList |-> op.args.urlList,
            result |-> sortByUrlUsageTime(op.args.urlList)]
  /\ UNCHANGED helperFrame

CombineAndSumTimesWithOccurrences ==
  /\ isPending("combineAndSumTimesWithOccurrences")
  /\ op' = [name |-> op.fn, arrays |-> op.args.arrays,
            result |-> combineAndSumTimesWithOccurrences(op.args.arrays)]
  /\ UNCHANGED helperFrame

CalcAverages ==
  /\ isPending("calcAverages")
  /\ op' = [name |-> op.fn, dataArray |-> op.args.dataArray,
            divideBy |-> op.args.divideBy,
            result |-> calcAverages(op.args.dataArray, op.args.divideBy)]
  /\ UNCHANGED helperFrame

FilterDateKeys ==
  /\ isPending("filterDateKeys")
  /\ op' = [name |-> op.fn, chromeKeyList |-> op.args.chromeKeyList,
            result |-> filterDateKeys(op.args.chromeKeyList)]
  /\ UNCHANGED helperFrame

GetGreaterEqualOrLessThenKey ==
  /\ isPending("getGreaterEqualOrLessThenKey")
  /\ op' = [name |-> op.fn, dateKeysArray |-> op.args.dateKeysArray,
            periodInDays |-> op.args.periodInDays, today |-> op.args.today,
            result |-> getGreaterEqualOrLessThenKey(op.args.dateKeysArray,
                         op.args.periodInDays, op.args.today)]
  /\ UNCHANGED helperFrame

NextHelpers ==
  \/ SortByUrlUsageTime \/ CombineAndSumTimesWithOccurrences \/ CalcAverages
  \/ FilterDateKeys \/ GetGreaterEqualOrLessThenKey

SpecHelpers == InitHelpers /\ [][NextHelpers]_vars

(***************************************************************************)
(* Properties                                                              *)
(***************************************************************************)
\* the elapsed time of the heartbeat-aware policy at wall-clock reading now:
\* min(now - startTime, now - lastDateCheck), each term clamped at 0, the
\* lastDateCheck term not binding when lastDateCheck is null
ElapsedAt(self, now) ==
  LET sinceStart == IF self.startTime = NullDate THEN now[1]
                    ELSE IF now[1] < self.startTime[1] THEN 0
                    ELSE now[1] - self.startTime[1]
      sinceCheck == IF now[1] < self.lastDateCheck[1] THEN 0
                    ELSE now[1] - self.lastDateCheck[1]
  IN  IF self.lastDateCheck = NullDate THEN sinceStart
      ELSE IF sinceCheck < sinceStart THEN sinceCheck ELSE sinceStart

EndedSession == op.name = "endSession" /\ pre.activeUrl # NullUrl
Ticked == op.name = "checkInterval" /\ pre.activeUrl # NullUrl

\* C1: endSession on a record with an active url adds the elapsed time
\* min(now - startTime, now - lastDateCheck) to that url's total whenever the
\* elapsed time is <= 2 * timeInterval, creating the entry if there is none.
C1_EndSessionAddsElapsed ==
  (EndedSession /\ ElapsedAt(pre, op.currentTime) <= 2 * op.timeInterval)
    => /\ hasEntry(urlData.urlList, pre.activeUrl)
       /\ totalOf(urlData.urlList, pre.activeUrl)
            = totalOf(pre.urlList, pre.activeUrl) + ElapsedAt(pre, op.currentTime)

\* C2: in every state the tracking path reaches, activeUrl is null if and
\* only if startTime is null.
C2_ActiveIffStarted ==
  (urlData.activeUrl = NullUrl) <=> (urlData.startTime = NullDate)

\* C3: after endSession on a record whose activeUrl is non-null, activeUrl and
\* startTime are null and lastActiveUrl is the url that was active, whether or
\* not time was credited.
C3_EndSessionClosesSession ==
  EndedSession
    => /\ urlData.activeUrl = NullUrl
       /\ urlData.startTime = NullDate
       /\ urlData.lastActiveUrl = pre.activeUrl

\* a session closed after more than 2 * timeInterval of wall-clock time, over
\* an earlier and different lastActiveUrl
C3_Witness ==
  /\ EndedSession
  /\ ElapsedAt(pre, op.currentTime) > 2 * op.timeInterval
  /\ pre.lastActiveUrl # NullUrl
  /\ pre.lastActiveUrl # pre.activeUrl
  /\ urlData.lastActiveUrl = pre.activeUrl

\* C4: endSession on a record whose activeUrl is null changes nothing.
C4_EndSessionNoActiveIsNoOp ==
  (op.name = "endSession" /\ pre.activeUrl = NullUrl)
    => /\ urlData.urlList = pre.urlList
       /\ urlData.lastActiveUrl = pre.lastActiveUrl
       /\ urlData.startTime = pre.startTime
       /\ urlData.lastDateCheck = pre.lastDateCheck
       /\ urlData.activeUrl = NullUrl

\* endSession called with nothing active on a record that has history
C4_Witness ==
  /\ op.name = "endSession"
  /\ pre.activeUrl = NullUrl
  /\ pre.lastActiveUrl # NullUrl
  /\ Len(pre.urlList) > 0
  /\ pre.lastDateCheck # NullDate
  /\ urlData = pre

C6_CheckIntervalAddsElapsed ==
  (Ticked /\ ElapsedAt(pre, op.currentTime) <= op.timeInterval)
    => /\ hasEntry(urlData.urlList, pre.activeUrl)
       /\ totalOf(urlData.urlList, pre.activeUrl)
            = totalOf(pre.urlList, pre.activeUrl) + ElapsedAt(pre, op.currentTime)

\* a heartbeat with elapsed == interval that created the entry
C6_Witness ==
  /\ Ticked
  /\ ElapsedAt(pre, op.currentTime) = op.timeInterval
  /\ ~hasEntry(pre.urlList, pre.activeUrl)
  /\ totalOf(urlData.urlList, pre.activeUrl) = op.timeInterval

\* C7: when interval < elapsed <= 2 * interval, checkInterval and endSession
\* add the full elapsed time to the active url's total.
C7_DelayedAddsFullElapsed ==
  ((Ticked \/ EndedSession)
     /\ op.timeInterval < ElapsedAt(pre, op.currentTime)
     /\ ElapsedAt(pre, op.currentTime) <= 2 * op.timeInterval)
    => totalOf(urlData.urlList, pre.activeUrl)
         = totalOf(pre.urlList, pre.activeUrl) + ElapsedAt(pre, op.currentTime)

\* C8: when elapsed > 2 * interval, checkInterval adds nothing: every total
\* and the length of urlList are unchanged.
C8_MissedHeartbeatAddsNothing ==
  (Ticked /\ ElapsedAt(pre, op.currentTime) > 2 * op.timeInterval)
    => urlData.urlList = pre.urlList

\* a heartbeat after a gap longer than 2 * interval, on a url that has an entry
C8_Witness ==
  /\ Ticked
  /\ ElapsedAt(pre, op.currentTime) > 2 * op.timeInterval
  /\ hasEntry(pre.urlList, pre.activeUrl)
  /\ urlData.urlList = pre.urlList

\* C9 as stated: after every call of checkInterval, lastDateCheck equals now.
C9_EveryCallStamps ==
  op.name = "checkInterval" => urlData.lastDateCheck = op.currentTime

\* C9 amended: after checkInterval on a record with an active url, whichever
\* elapsed-time branch fired, lastDateCheck equals now; on a record with no
\* active url lastDateCheck is left as it was.
C9_ActiveCallStamps ==
  op.name = "checkInterval"
    => IF pre.activeUrl # NullUrl
       THEN urlData.lastDateCheck = op.currentTime
       ELSE urlData.lastDateCheck = pre.lastDateCheck

\* a heartbeat that added nothing and still moved lastDateCheck
C9_Witness ==
  /\ Ticked
  /\ ElapsedAt(pre, op.currentTime) > 2 * op.timeInterval
  /\ pre.lastDateCheck # op.currentTime
  /\ urlData.lastDateCheck = op.currentTime

\* C10: checkInterval on a record with no active url leaves urlList,
\* activeUrl, startTime and lastActiveUrl as they were.
C10_CheckIntervalNoActive ==
  (op.name = "checkInterval" /\ pre.activeUrl = NullUrl)
    => /\ urlData.urlList = pre.urlList
       /\ urlData.activeUrl = pre.activeUrl
       /\ urlData.startTime = pre.startTime
       /\ urlData.lastActiveUrl = pre.lastActiveUrl

\* a heartbeat on a record that has entries and no active url
C10_Witness ==
  /\ op.name = "checkInterval"
  /\ pre.activeUrl = NullUrl
  /\ pre.lastActiveUrl # NullUrl
  /\ Len(pre.urlList) > 0
  /\ urlData.urlList = pre.urlList

\* C11: every entry's totalTime is >= 0, and no startSession, endSession or
\* checkInterval, at any timestamp (one earlier than the stored times
\* included), decreases the total of an entry or removes one.
C11_TotalsNeverDecrease ==
  /\ \A i \in 1..Len(urlData.urlList) : urlData.urlList[i].totalTime >= 0
  /\ Len(urlData.urlList) >= Len(pre.urlList)
  /\ \A i \in 1..Len(pre.urlList) :
       /\ urlData.urlList[i].url = pre.urlList[i].url
       /\ urlData.urlList[i].totalTime >= pre.urlList[i].totalTime

\* a heartbeat at a time before the stored startTime, on a url whose total
\* is positive and stays as it was
C11_Witness ==
  /\ Ticked
  /\ pre.startTime # NullDate
  /\ op.currentTime[1] < pre.startTime[1]
  /\ totalOf(pre.urlList, pre.activeUrl) > 0
  /\ totalOf(urlData.urlList, pre.activeUrl) = totalOf(pre.urlList, pre.activeUrl)

C17_RoundTrip == fromJSONString(toJSONString(urlData)) = urlData

\* a record with every field set and two entries, taken through the round trip
C17_Witness ==
  /\ urlData.activeUrl # NullUrl
  /\ urlData.lastActiveUrl # NullUrl
  /\ urlData.startTime # NullDate
  /\ urlData.lastDateCheck # NullDate
  /\ Len(urlData.urlList) >= 2
  /\ toJSONString(urlData).startTime # urlData.startTime
  /\ fromJSONString(toJSONString(urlData)).urlList = urlData.urlList

\* C18: fromJSONString returns null for every input that is not the text of a
\* JSON object: text that does not parse, the JSON text null, other JSON
\* values, and arguments that are not strings.
C18_MalformedGivesNull ==
  (op.name \in HandlerNames /\ op.stored.kind # "json")
    => fromJSONString(op.stored) = Null

\* C19: when the stored value is malformed (fromJSONString returns null for
\* it), the handler carries on with a fresh record: it does not throw and it
\* writes a valid document back.
C19_MalformedStoreRecovered ==
  (op.name \in HandlerNames /\ isTruthy(op.stored) /\ fromJSONString(op.stored) = Null)
    => /\ ~op.threw
       /\ pre = NewUrlDataObj
       /\ store.kind = "json"

\* C12: from an empty record, whatever sequence of appendListItem,
\* startSession, endSession, addActiveTime and checkInterval is made, urlList
\* holds at most one entry per url.
C12_NoDuplicateUrls ==
  \A i, j \in 1..Len(urlData.urlList) :
    i # j => urlData.urlList[i].url # urlData.urlList[j].url

\* addActiveTime on a url that has an entry, in a list of two: the time went
\* to the entry and the list did not grow
C12_Witness ==
  /\ op.name = "addActiveTime"
  /\ op.elapsedTime > 0
  /\ hasEntry(pre.urlList, pre.activeUrl)
  /\ Len(pre.urlList) = 2
  /\ Len(urlData.urlList) = 2
  /\ totalOf(urlData.urlList, pre.activeUrl)
       = totalOf(pre.urlList, pre.activeUrl) + op.elapsedTime

\* C16: appendListItem appends {url, totalTime: 0} and returns true when the
\* url has no entry; a further call with the same url returns false and
\* leaves the length of urlList and the entry's total as they were.
C16_AppendListItemIdempotent ==
  /\ op.name = "appendListItem"
       => IF ~hasEntry(pre.urlList, op.url)
          THEN /\ op.result = TRUE
               /\ urlData.urlList = Append(pre.urlList, [url |-> op.url, totalTime |-> 0])
          ELSE /\ op.result = FALSE
               /\ urlData = pre
  /\ \A url \in ListUrls :
       LET first == appendListItem(urlData, url)
           second == appendListItem(first.self, url)
       IN  /\ second.result = FALSE
           /\ second.self = first.self
           /\ Len(second.self.urlList) = Len(first.self.urlList)

\* a repeated appendListItem of a url whose entry has a positive total
C16_Witness ==
  /\ op.name = "appendListItem"
  /\ op.result = FALSE
  /\ totalOf(pre.urlList, op.url) > 0
  /\ Len(pre.urlList) = 2
  /\ urlData.urlList = pre.urlList

\* the task has its answer from the store and its write is not applied yet
HasReadNotWritten(pc) == pc \in {"loaded", "got", "ended", "started", "checked", "writing"}

\* C13: at most one mutation is in flight: no handler starts its read of the
\* stored record while another handler has read the record and its write-back
\* has not been applied yet.
C13_OneMutationInFlight ==
  [][\A h \in 1..MaxEvents :
       (tasks[h].pc = "idle" /\ tasks'[h].pc = "reading")
         => \A g \in 1..MaxEvents : g # h => ~HasReadNotWritten(tasks[g].pc)]_vars

\* C14: every startSession that updateActiveUrlSession makes comes directly
\* after the endSession of the same invocation, on the same record object:
\* the JavaScript thread made no other step in between.
C14_StartFollowsEnd ==
  js[2].call = "startSession"
    => js[1] = [task |-> js[2].task, call |-> "endSession"]

\* a startSession made while the other handler is in flight, after an
\* endSession that closed a running session
C14_Witness ==
  /\ js[2].call = "startSession"
  /\ \E h \in 1..MaxEvents :
       /\ h = js[2].task
       /\ tasks[h].pc = "started"
       /\ tasks[h].siteDataObj.lastActiveUrl # NullUrl
       /\ tasks[h].siteDataObj.activeUrl = tasks[h].url
       /\ \E g \in 1..MaxEvents : g # h /\ tasks[g].pc \in {"reading", "loaded", "writing"}

\* C20: when nothing is stored under the date key, getSiteObjData returns an
\* empty record: all four scalar fields null and no entries.
C20_NoDataGivesEmptyRecord ==
  \A h \in 1..MaxEvents :
    (tasks[h].pc = "got" /\ tasks[h].stored = NoData)
      => tasks[h].siteDataObj = NewUrlDataObj

\* getSiteObjData has returned to a handler that found nothing stored
C20_Witness ==
  \E h \in 1..MaxEvents :
    /\ tasks[h].pc = "got"
    /\ tasks[h].stored = NoData
    /\ store = NoData
    /\ tasks[h].siteDataObj.activeUrl = NullUrl
    /\ tasks[h].siteDataObj.urlList = << >>

\* C29: a session started by startSession(u, T0), then checked by heartbeats
\* and closed by endSession at Tn, with non-decreasing timestamps and every
\* gap between consecutive calls <= 2 * interval, adds exactly Tn - T0 to u's
\* total.
C29_SessionCountedExactly ==
  (EndedSession /\ acct.gapsWithin)
    => totalOf(urlData.urlList, pre.activeUrl) - acct.base
         = op.currentTime[1] - acct.t0[1]

\* C30: with non-decreasing timestamps the total credited to a url never
\* exceeds the wall-clock time during which it was the record's activeUrl,
\* and a call that comes more than 2 * interval after the one before it adds
\* nothing to any total.
C30_NoOverBilling ==
  /\ \A u \in DOMAIN acct.wall : totalOf(urlData.urlList, u) <= acct.wall[u]
  /\ (op.name \in {"checkInterval", "endSession"} /\ acct.gap > 2 * op.timeInterval)
       => \A u \in CleanedUrls : totalOf(urlData.urlList, u) = totalOf(pre.urlList, u)

\* a heartbeat after a gap longer than 2 * interval: nothing is added and the
\* active url stays under its wall-clock time
C30_Witness ==
  /\ Ticked
  /\ acct.gap > 2 * op.timeInterval
  /\ urlData.urlList = pre.urlList
  /\ totalOf(urlData.urlList, pre.activeUrl) < acct.wall[pre.activeUrl]

countOf(seq, x) == Cardinality({ i \in 1..Len(seq) : seq[i] = x })

\* C21: sortByUrlUsageTime returns a permutation of its input with totalTime
\* non-increasing, entries of equal totalTime in their original order; the
\* empty list and one-element lists come back unchanged.
C21_SortedStablePermutation ==
  op.name = "sortByUrlUsageTime" =>
    LET given  == op.urlList
        sorted == op.result
    IN  /\ Len(sorted) = Len(given)
        /\ \A e \in AggEntries : countOf(sorted, e) = countOf(given, e)
        /\ \A i \in 1..(Len(sorted) - 1) : sorted[i].totalTime >= sorted[i + 1].totalTime
        /\ \A t \in 0..MaxTime :
             SelectSeq(sorted, LAMBDA e : e.totalTime = t)
               = SelectSeq(given, LAMBDA e : e.totalTime = t)
        /\ Len(given) <= 1 => sorted = given

\* a list that had to be reordered and holds two different urls with the
\* same totalTime
C21_Witness ==
  /\ op.name = "sortByUrlUsageTime"
  /\ op.result # op.urlList
  /\ \E i, j \in 1..Len(op.urlList) :
       /\ i < j
       /\ op.urlList[i].totalTime = op.urlList[j].totalTime
       /\ op.urlList[i].url # op.urlList[j].url

RECURSIVE sumTimes(_, _)
sumTimes(list, url) ==
  IF list = << >> THEN 0
  ELSE (IF list[1].url = url THEN list[1].totalTime ELSE 0) + sumTimes(Tail(list), url)

RECURSIVE sumDays(_, _)
sumDays(lists, url) ==
  IF lists = << >> THEN 0
  ELSE sumTimes(lists[1], url) + sumDays(Tail(lists), url)

daysWith(lists, url) ==
  { d \in 1..Len(lists) : \E i \in 1..Len(lists[d]) : lists[d][i].url = url }
firstDayOf(lists, url) ==
  CHOOSE d \in daysWith(lists, url) : \A e \in daysWith(lists, url) : d <= e
firstIndexOf(list, url) ==
  CHOOSE i \in 1..Len(list) :
    list[i].url = url /\ \A j \in 1..Len(list) : list[j].url = url => i <= j
appearsBefore(lists, u, v) ==
  \/ firstDayOf(lists, u) < firstDayOf(lists, v)
  \/ /\ firstDayOf(lists, u) = firstDayOf(lists, v)
     /\ firstIndexOf(lists[firstDayOf(lists, u)], u)
          < firstIndexOf(lists[firstDayOf(lists, v)], v)

digitValue(c) == (CHOOSE i \in 1..Len(DecimalDigits) : DecimalDigits[i] = c) - 1
numberAt(s, i, j) ==
  IF j = i + 1 THEN 10 * digitValue(s[i]) + digitValue(s[j])
  ELSE 1000 * digitValue(s[i]) + 100 * digitValue(s[i + 1])
         + 10 * digitValue(s[i + 2]) + digitValue(s[j])
\* s is YYYY-MM-DD with a month in 01..12 and a day in 01..31
isDateForm(s) ==
  IF Len(s) # 10 THEN FALSE
  ELSE /\ \A i \in {1, 2, 3, 4, 6, 7, 9, 10} : isDigit(s[i])
       /\ s[5] = "-" /\ s[8] = "-"
       /\ numberAt(s, 6, 7) \in 1..12
       /\ numberAt(s, 9, 10) \in 1..31
parseKey(s) == CalDate(numberAt(s, 1, 4), numberAt(s, 6, 7), numberAt(s, 9, 10))

C25_TodayAndFutureExcluded ==
  op.name = "getGreaterEqualOrLessThenKey" =>
    LET todayKey == getDateKey(op.today)
    IN  /\ \A i \in 1..Len(op.result.graterEq) : lessThan(op.result.graterEq[i], todayKey)
        /\ \A i \in 1..Len(op.result.less) : lessThan(op.result.less[i], todayKey)

\* C26: filterDateKeys returns, in input order, exactly the elements that are
\* strings of the form YYYY-MM-DD with a month in 01..12 and a day in 01..31.
C26_KeepsOnlyDateStrings ==
  op.name = "filterDateKeys" =>
    op.result = SelectSeq(op.chromeKeyList,
                          LAMBDA v : v.type = "string" /\ isDateForm(v.str))

\* C27: in simple mode calcTimeElapsed(start, end) with end earlier than start
\* returns null, and endSession never adds a negative duration to a total.
C27_NoNegativeDuration ==
  (/\ op.name = "endSessionSimple"
   /\ pre.activeUrl # NullUrl
   /\ op.currentTime[1] < pre.startTime[1])
    => /\ op.elapsedTime = NullNumber
       /\ \A u \in CleanedUrls :
            hasEntry(pre.urlList, u)
              => totalOf(urlData.urlList, u) >= totalOf(pre.urlList, u)

C34_NoNullEntries ==
  \A i \in 1..Len(urlData.urlList) : ~isNullish(urlData.urlList[i].url)

\* time is handed to addActiveTime on a record left by startSession(null):
\* no active url, startTime set
C34_Witness ==
  /\ op.name = "addActiveTime"
  /\ op.elapsedTime > 0
  /\ pre.activeUrl = NullUrl
  /\ pre.startTime # NullDate
  /\ urlData.urlList = pre.urlList
  /\ Len(urlData.urlList) > 0

\* C35: addActiveTime, checkInterval and endSession change at most the entry
\* of the active url: every other entry keeps its url and totalTime, and the
\* list grows by at most one entry, only when the active url had none.
C35_OnlyActiveEntryChanges ==
  op.name \in {"addActiveTime", "checkInterval", "endSession"} =>
    /\ Len(urlData.urlList) >= Len(pre.urlList)
    /\ Len(urlData.urlList) <= Len(pre.urlList) + 1
    /\ \A i \in 1..Len(pre.urlList) :
         /\ urlData.urlList[i].url = pre.urlList[i].url
         /\ pre.urlList[i].url # pre.activeUrl
              => urlData.urlList[i].totalTime = pre.urlList[i].totalTime
    /\ Len(urlData.urlList) = Len(pre.urlList) + 1
         => /\ ~hasEntry(pre.urlList, pre.activeUrl)
            /\ urlData.urlList[Len(urlData.urlList)].url = pre.activeUrl

\* time was added to the active url's entry, the second of two
C35_Witness ==
  /\ op.name \in {"addActiveTime", "checkInterval"}
  /\ Len(pre.urlList) = 2
  /\ pre.urlList[2].url = pre.activeUrl
  /\ urlData.urlList[2].totalTime > pre.urlList[2].totalTime
  /\ urlData.urlList[1] = pre.urlList[1]

\* C37: fromJSONString on a JSON object that lacks fields gives a record
\* whose missing activeUrl, lastActiveUrl, startTime and lastDateCheck are
\* null and whose missing urlList is empty, so that hasActiveUrl() is false.
C37_MissingFieldsDefaulted ==
  (op.name \in HandlerNames /\ op.stored.kind = "json") =>
    LET r == fromJSONString(op.stored)
        missing(f) == f \notin DOMAIN op.stored
    IN  /\ missing("activeUrl") => (r.activeUrl = NullUrl /\ ~hasActiveUrl(r))
        /\ missing("lastActiveUrl") => r.lastActiveUrl = NullUrl
        /\ missing("startTime") => r.startTime = NullDate
        /\ missing("lastDateCheck") => r.lastDateCheck = NullDate
        /\ missing("urlList") => r.urlList = << >>

\* the strings of a key list that filterDateKeys lets through
passFilter(keys) == filterDateKeys([i \in 1..Len(keys) |-> Str(keys[i])])

\* C38: both lists returned by getGreaterEqualOrLessThenKey hold only strings
\* that pass filterDateKeys, whatever store keys are given.
C38_SplitHoldsOnlyDateKeys ==
  op.name = "getGreaterEqualOrLessThenKey" =>
    /\ Len(passFilter(op.result.graterEq)) = Len(op.result.graterEq)
    /\ Len(passFilter(op.result.less)) = Len(op.result.less)


\* the day record stored under a date key
dayRecord(key) == getSiteObjData(getChromeLocalData(localStore, key))

\* C32: a handler stores the record under the date key it read it from, also
\* when midnight passes between its read and its write (violated: the key is
\* computed again at the write)
C32_WrittenUnderKeyRead ==
  op.name = "written" => op.writeKey = op.readKey

\* C33: every stored day record other than the current day's has no active
\* url and no start time (violated: nothing ends the session at midnight)
C33_OldDaysEnded ==
  \A i \in 1..Len(localStore) :
    localStore[i].key # getDateKey(todayDate) =>
      /\ dayRecord(localStore[i].key).activeUrl = NullUrl
      /\ dayRecord(localStore[i].key).startTime = NullDate

Settled == \A h \in 1..MaxEvents : tasks[h].pc \in {"idle", "done"}

\* one heartbeat and one tab event have been delivered
HeartbeatAndTab ==
  /\ Len(op.handlers) = 2
  /\ {op.handlers[1], op.handlers[2]} = {"checkIntervalWraper", "updateActiveUrlSession"}

\* C31: when a heartbeat handler and a tab handler overlap at their reads,
\* the record stored in the end reflects both: no write takes away time
\* that is stored, and once both handlers have finished the active url is
\* the url of the tab event (violated: each handler writes back the record
\* it read, changed, over whatever the other has stored since)
C31_NoLostUpdate ==
  [][HeartbeatAndTab =>
       /\ \A u \in CleanedUrls :
            totalOf(getSiteObjData(store').urlList, u)
              >= totalOf(getSiteObjData(store).urlList, u)
       /\ Settled' => getSiteObjData(store').activeUrl = op.url]_vars
====
